---- MODULE Spec2Model ----
(***************************************************************************)
(* PulseBlast data culling: the DataCull orchestrator (DataCulling.py) and *)
(* zeroWeights (otherUtilities.py), over an archive whose weights are the  *)
(* only mutable observation state.                                         *)
(*                                                                         *)
(* A profile is abstracted to its kind: what the numeric collaborators     *)
(* (fft, curve_fit, rmsMatrix2D, get_toa3) return for it.  The grid the    *)
(* archive hands out is a function from cells to kinds; a zero-weighted     *)
(* cell reads back as the all-zero profile.                                *)
(***************************************************************************)
EXTENDS FiniteSets, Integers, Sequences, TLC

VARIABLES kindAt, weights, data, verbose, rejectionCompletionFlag,
          pc, args, i, raised, log, ncalls, SNError

vars == <<kindAt, weights, data, verbose, rejectionCompletionFlag,
          pc, args, i, raised, log, ncalls, SNError>>

(***************************************************************************)
(* Bounds of the model.                                                    *)
(***************************************************************************)
Nsubint == 2
Nchan == 4
MaxIterations == 2
MaxCalls == 1

(***************************************************************************)
(* The grid.                                                               *)
(***************************************************************************)
Cells == (1..Nsubint) \X (1..Nchan)

\* The order of the double loop "for time ... for frequency ..." and of
\* np.where: row-major.
RECURSIVE RowMajor(_, _)
RowMajor(t, f) ==
    IF t > Nsubint THEN <<>>
    ELSE IF f > Nchan THEN RowMajor(t + 1, 1)
    ELSE <<(<<t, f>>)>> \o RowMajor(t, f + 1)

CellSeq == RowMajor(1, 1)

Kinds == {"inlier", "zero", "flat", "badfft", "fftfail",
          "noisy", "loud", "shifted", "jitter", "toafail"}

NaN == -1

None == <<>>

Criteria == {"chauvenet", "DMAD", "other"}

Strategies == {"fourier", "rms", "binShift"}

(***************************************************************************)
(* The archive collaborator: getData, setWeights.                          *)
(***************************************************************************)
\* An archive is [kindAt, weights, cmds]: the stored profiles, the weight
\* matrix, and the setWeights commands it has received (value, t, f).
getData(ar) ==
    [c \in Cells |-> IF ar.weights[c] = 0 THEN "zero" ELSE ar.kindAt[c]]

setWeights(ar, value, t, f) ==
    [ar EXCEPT !.weights[<<t, f>>] = value,
               !.cmds = Append(@, <<value, t, f>>)]

(***************************************************************************)
(* Numeric collaborators, per profile kind.                                *)
(***************************************************************************)
\* An all-zero test that no profile passes.
AllZeroNever(k) == FALSE

\* all( amp == 0 for amp in profile )
AllZero(k) == k = "zero"

\* fft, normalizeToMax, fftshift of a profile: the centred spectrum, in
\* halves of its peak, over three bins.  normalizeToMax leaves an all-zero
\* sequence unchanged.
profFFT(k) ==
    CASE k = "zero" -> <<0, 0, 0>>
      [] k = "flat" -> <<0, 2, 0>>
      [] OTHER      -> <<1, 2, 1>>

\* Python's all(): every element truthy (non-zero).
all(s) == \A n \in 1..Len(s) : s[n] # 0

\* opt.curve_fit on a profile's spectrum: it raises when the fit does not
\* converge, else gives the fitted parameters (here params[0][1]).
curve_fit(k) ==
    CASE k = "fftfail" -> [ok |-> FALSE, width |-> 0]
      [] k = "badfft"  -> [ok |-> TRUE, width |-> -1]
      [] OTHER         -> [ok |-> TRUE, width |-> 1]

\* get_toa3: tauhat and sigma_tau, or an exception.
get_toa3(k) ==
    CASE k \in {"toafail", "zero"} -> [ok |-> FALSE, tauhat |-> 0, sigma_tau |-> 0]
      [] k = "shifted" -> [ok |-> TRUE, tauhat |-> 8, sigma_tau |-> 1]
      [] k = "jitter"  -> [ok |-> TRUE, tauhat |-> 0, sigma_tau |-> 8]
      [] OTHER         -> [ok |-> TRUE, tauhat |-> 0, sigma_tau |-> 1]

\* Off-pulse RMS of one profile.
rms(k) ==
    CASE k = "noisy" -> 3
      [] k = "loud"  -> 9
      [] OTHER       -> 1

\* rmsMatrix2D( grid, mask, nanmask = True ): all-zero profiles give NaN.
rmsMatrix2D(grid) ==
    [c \in Cells |-> IF AllZero(grid[c]) THEN NaN ELSE rms(grid[c])]

(***************************************************************************)
(* Statistics kernel.  Means and variances are exact rationals.            *)
(***************************************************************************)
Valid(m) == {c \in DOMAIN m : m[c] # NaN}

RECURSIVE SumOver(_, _, _)
SumOver(m, S, sq) ==
    IF S = {} THEN 0
    ELSE LET c == CHOOSE x \in S : TRUE
         IN  (IF sq THEN m[c] * m[c] ELSE m[c]) + SumOver(m, S \ {c}, sq)

\* np.nanmean: sum / count over the non-NaN entries.
nanmean(m) ==
    [num |-> SumOver(m, Valid(m), FALSE), den |-> Cardinality(Valid(m))]

\* np.nanstd, kept squared: (n*Q - S^2) / n^2.
nanstd(m) ==
    LET n == Cardinality(Valid(m))
        S == SumOver(m, Valid(m), FALSE)
        Q == SumOver(m, Valid(m), TRUE)
    IN  [num |-> n * Q - S * S, den |-> n * n]

\* 100 * z^2 for the z with erfc(z / sqrt 2) = 1 / (2 M), rounded up.
ZSq100(M) ==
    LET T == <<46, 133, 192, 236, 271, 300, 325, 347, 367, 385,
               401, 415, 429, 442, 453, 464, 475, 485, 494, 503,
               511, 519, 527, 535, 542, 549, 555, 562, 568, 574,
               579, 585, 590, 596, 601, 606, 611, 615, 620, 624,
               629, 633, 637, 641, 645, 649, 653, 657, 660, 664,
               668, 671, 674, 678, 681, 684, 687, 690, 694, 697>>
    IN  IF M < 1 THEN 0 ELSE IF M > Len(T) THEN 700 ELSE T[M]

\* chauvenet( values, mean, stdDev, criterionFactor ): outlier when
\* erfc(|x - mean| / (stdDev sqrt 2)) < 1 / (2 N criterionFactor); a NaN
\* entry, and every entry when stdDev is 0 or NaN, is no outlier.
chauvenet(values, mean, stdDev, criterionFactor) ==
    LET N == Cardinality(DOMAIN values)
        z == ZSq100(N * criterionFactor)
    IN  [c \in DOMAIN values |->
            /\ values[c] # NaN
            /\ mean.den > 0
            /\ stdDev.num > 0
            /\ LET dev == values[c] * mean.den - mean.num
               IN  100 * dev * dev * stdDev.den > z * stdDev.num * mean.den * mean.den]

\* The k-th smallest of the values m takes on S (k in 1..|S|).
Kth(m, S, k) ==
    CHOOSE x \in {m[c] : c \in S} :
        /\ Cardinality({c \in S : m[c] <= x}) >= k
        /\ Cardinality({c \in S : m[c] < x}) < k

\* Twice the median of m over S (the mean of the two middle values when |S|
\* is even).
Median2(m, S) ==
    LET n == Cardinality(S)
    IN  Kth(m, S, (n + 1) \div 2) + Kth(m, S, (n \div 2) + 1)

\* doubleMAD( values ): the deviation score of each value, |x - median| over
\* the median absolute deviation of its side; a zero MAD gives score 0.  The
\* result is used as a mask: a non-zero score selects the cell.
doubleMAD(values) ==
    LET V    == Valid(values)
        med2 == Median2(values, V)
        dev2 == [c \in V |-> IF 2 * values[c] >= med2
                             THEN 2 * values[c] - med2 ELSE med2 - 2 * values[c]]
        left  == {c \in V : 2 * values[c] <= med2}
        right == {c \in V : 2 * values[c] >= med2}
    IN  [c \in DOMAIN values |->
            /\ c \in V
            /\ dev2[c] # 0
            /\ IF 2 * values[c] > med2
               THEN Median2(dev2, right) # 0
               ELSE Median2(dev2, left) # 0]

\* u.getRMSArrayProperties( data, mask ): the RMS matrix with its mean and
\* standard deviation, NaN ignored.
getRMSArrayProperties(grid) ==
    LET m == rmsMatrix2D(grid)
    IN  [rmsArray |-> m, mu |-> nanmean(m), sigma |-> nanstd(m)]

\* A where that gives the cells the mask leaves out.
whereNot(criterion) == SelectSeq(CellSeq, LAMBDA c : ~criterion[c])

\* np.where( criterion ): the selected cells, in row-major order.
where(criterion) == SelectSeq(CellSeq, LAMBDA c : criterion[c])

(***************************************************************************)
(* otherUtilities.zeroWeights                                              *)
(***************************************************************************)
\* The loop of zeroWeights, commanding weight 1 instead of 0.
RECURSIVE ZeroEachOne(_, _)
ZeroEachOne(cells, archive) ==
    IF cells = <<>> THEN archive
    ELSE ZeroEachOne(Tail(cells),
                     setWeights(archive, 1, Head(cells)[1], Head(cells)[2]))

RECURSIVE ZeroEach(_, _)
ZeroEach(cells, archive) ==
    IF cells = <<>> THEN archive
    ELSE ZeroEach(Tail(cells),
                  setWeights(archive, 0, Head(cells)[1], Head(cells)[2]))

zeroWeights(criterion, archive) ==
    IF criterion = None \/ archive = None
    THEN [raised |-> "ValueError", ar |-> archive]
    ELSE [raised |-> "none", ar |-> ZeroEach(where(criterion), archive)]

\* The cells a mask selects.
Selected(criterion) == {c \in Cells : criterion[c]}

(***************************************************************************)
(* DataCull: the strategies.  self is [ar, data, flag, verbose]; a strategy *)
(* gives back the object's fields after it, with                           *)
(*   raised   - the exception that left it ("none": it returned),          *)
(*   used     - the grid its statistics were computed from,                *)
(*   selected - the cells its rejection test picked,                       *)
(*   fitted   - the cells curve_fit or get_toa3 was called on,              *)
(*   nan      - the cells its statistic matrix holds NaN for.              *)
(***************************************************************************)

\* DataCull.rmsRejection
\* rmsRejection without its reload: the cached grid is used as it is.
RmsReloadStale(self) == self.data

RmsReload(self) == getData(self.ar)

\* rmsRejection that applies the mask first and checks the criterion last.
rmsRejectionLateCheck(self, criterion) ==
    LET d == RmsReload(self)
        p == getRMSArrayProperties(d)
        rejectionCriterion ==
            IF criterion = "chauvenet" THEN chauvenet(p.rmsArray, p.mu, p.sigma, 3)
            ELSE doubleMAD(p.rmsArray)
        z == zeroWeights(rejectionCriterion, self.ar)
    IN  [ar |-> z.ar, data |-> d,
         flag |-> IF Len(where(rejectionCriterion)) = 0
                  THEN TRUE ELSE self.flag,
         raised |-> IF criterion \notin {"chauvenet", "DMAD"}
                    THEN "ValueError" ELSE z.raised,
         used |-> d, selected |-> Selected(rejectionCriterion),
         fitted |-> {}, nan |-> Cells \ Valid(p.rmsArray)]

rmsRejection(self, criterion) ==
    LET d == RmsReload(self)
        p == getRMSArrayProperties(d)
        rejectionCriterion ==
            IF criterion = "chauvenet" THEN chauvenet(p.rmsArray, p.mu, p.sigma, 3)
            ELSE doubleMAD(p.rmsArray)
    IN  \* "criterion is 'chauvenet'": the caller's literal is the same
        \* interned string, so identity is read as equality.
        IF criterion \notin {"chauvenet", "DMAD"}
        THEN [ar |-> self.ar, data |-> d, flag |-> self.flag,
              raised |-> "ValueError", used |-> d, selected |-> {},
              fitted |-> {}, nan |-> Cells \ Valid(p.rmsArray)]
        ELSE LET z == zeroWeights(rejectionCriterion, self.ar)
             IN  [ar |-> z.ar, data |-> d,
                  flag |-> IF Len(where(rejectionCriterion)) = 0
                           THEN TRUE ELSE self.flag,
                  raised |-> z.raised, used |-> d,
                  selected |-> Selected(rejectionCriterion),
                  fitted |-> {}, nan |-> Cells \ Valid(p.rmsArray)]

\* DataCull.fourierTransformRejection: the loop over (time, frequency).
\* acc is [ar, raised, selected, fitted].
RECURSIVE FourierSweep(_, _, _)
FourierSweep(cells, grid, acc) ==
    IF cells = <<>> \/ acc.raised # "none" THEN acc
    ELSE LET c      == Head(cells)
             params == curve_fit(grid[c])
         IN  IF all(profFFT(grid[c])) = FALSE
             THEN FourierSweep(Tail(cells), grid, acc)
             ELSE IF ~params.ok
             THEN [acc EXCEPT !.raised = "RuntimeError", !.fitted = @ \cup {c}]
             ELSE IF params.width < 0
             THEN FourierSweep(Tail(cells), grid,
                      [acc EXCEPT !.ar = setWeights(@, 0, c[1], c[2]),
                                  !.selected = @ \cup {c},
                                  !.fitted = @ \cup {c}])
             ELSE FourierSweep(Tail(cells), grid,
                      [acc EXCEPT !.fitted = @ \cup {c}])

\* The criterion argument is not read: the branch on it is commented out.
fourierTransformRejection(self, criterion) ==
    LET d == getData(self.ar)
        s == FourierSweep(CellSeq, d,
                 [ar |-> self.ar, raised |-> "none", selected |-> {},
                  fitted |-> {}])
    IN  [ar |-> s.ar,
         data |-> IF s.raised = "none" THEN getData(s.ar) ELSE self.data,
         flag |-> self.flag,
         raised |-> s.raised, used |-> d, selected |-> s.selected,
         fitted |-> s.fitted, nan |-> {}]

\* DataCull.getBinShifts: the loop over (time, frequency).
\* acc is [ar, nBinShift, nBinError, fitted].
RECURSIVE BinShiftSweep(_, _, _)
BinShiftSweep(cells, grid, acc) ==
    IF cells = <<>> THEN acc
    ELSE LET c   == Head(cells)
             toa == get_toa3(grid[c])
         IN  IF AllZero(grid[c])
             THEN BinShiftSweep(Tail(cells), grid,
                      [acc EXCEPT !.nBinShift[c] = NaN, !.nBinError[c] = NaN])
             ELSE IF toa.ok
             THEN BinShiftSweep(Tail(cells), grid,
                      [acc EXCEPT !.nBinShift[c] = toa.tauhat,
                                  !.nBinError[c] = toa.sigma_tau,
                                  !.fitted = @ \cup {c}])
             ELSE BinShiftSweep(Tail(cells), grid,
                      [acc EXCEPT !.ar = setWeights(@, 0, c[1], c[2]),
                                  !.nBinShift[c] = NaN, !.nBinError[c] = NaN,
                                  !.fitted = @ \cup {c}])

getBinShifts(self) ==
    LET d == getData(self.ar)
        s == BinShiftSweep(CellSeq, d,
                 [ar |-> self.ar,
                  nBinShift |-> [c \in Cells |-> 0],
                  nBinError |-> [c \in Cells |-> 0],
                  fitted |-> {}])
    IN  [ar |-> s.ar, data |-> d,
         nBinShift |-> s.nBinShift, nBinError |-> s.nBinError,
         fitted |-> s.fitted]

\* binShiftRejection applying the mask of the shifts only.
binShiftRejectionShiftOnly(self) ==
    LET g == getBinShifts(self)
        rejectionCriterionS ==
            chauvenet(g.nBinShift, nanmean(g.nBinShift), nanstd(g.nBinShift), 3)
        rejectionCriterionE ==
            chauvenet(g.nBinError, nanmean(g.nBinError), nanstd(g.nBinError), 3)
        zS == zeroWeights(rejectionCriterionS, g.ar)
    IN  [ar |-> zS.ar, data |-> g.data,
         flag |-> IF /\ Len(where(rejectionCriterionS)) = 0
                     /\ Len(where(rejectionCriterionE)) = 0
                  THEN TRUE ELSE self.flag,
         raised |-> "none", used |-> g.data,
         selected |-> Selected(rejectionCriterionS)
                          \cup Selected(rejectionCriterionE),
         fitted |-> g.fitted,
         nan |-> (Cells \ Valid(g.nBinShift)) \cup (Cells \ Valid(g.nBinError))]

\* DataCull.binShiftRejection
binShiftRejection(self) ==
    LET g == getBinShifts(self)
        rejectionCriterionS ==
            chauvenet(g.nBinShift, nanmean(g.nBinShift), nanstd(g.nBinShift), 3)
        rejectionCriterionE ==
            chauvenet(g.nBinError, nanmean(g.nBinError), nanstd(g.nBinError), 3)
        zS == zeroWeights(rejectionCriterionS, g.ar)
        zE == zeroWeights(rejectionCriterionE, zS.ar)
    IN  [ar |-> zE.ar, data |-> g.data,
         flag |-> IF /\ Len(where(rejectionCriterionS)) = 0
                     /\ Len(where(rejectionCriterionE)) = 0
                  THEN TRUE ELSE self.flag,
         raised |-> "none", used |-> g.data,
         selected |-> Selected(rejectionCriterionS)
                          \cup Selected(rejectionCriterionE),
         fitted |-> g.fitted,
         nan |-> (Cells \ Valid(g.nBinShift)) \cup (Cells \ Valid(g.nBinError))]

(***************************************************************************)
(* The session: one DataCull object, its archive, and the calls made on it. *)
(***************************************************************************)
Archive == [kindAt |-> kindAt, weights |-> weights, cmds |-> <<>>]

Self == [ar |-> Archive, data |-> data, flag |-> rejectionCompletionFlag,
         verbose |-> verbose]

NoArgs == [criterion |-> "chauvenet", iterations |-> 0,
           fourier |-> FALSE, rms |-> FALSE, binShift |-> FALSE]

\* The grids a session starts from: every cell an inlier but one, anywhere,
\* or but the two in opposite corners.
Corner1 == <<1, 1>>
Corner2 == <<Nsubint, Nchan>>

Grids ==
    {[c \in Cells |-> IF c = p THEN k ELSE "inlier"] : p \in Cells, k \in Kinds}
    \cup
    {[c \in Cells |-> IF c = Corner1 THEN k1
                      ELSE IF c = Corner2 THEN k2 ELSE "inlier"] :
        k1 \in Kinds, k2 \in Kinds}

\* DataCull.__init__ on an existing file: the archive is loaded with every
\* weight set, and the data cube is fetched.  rejectionCompletionFlag does
\* not exist yet; reject assigns it before reading it.  The session goes on
\* with an observation whose S/N passed the floor; nothing below reads
\* SNError.
Init ==
    /\ SNError = FALSE
    /\ kindAt \in Grids
    /\ weights = [c \in Cells |-> 1]
    /\ data = [c \in Cells |-> kindAt[c]]
    /\ verbose \in BOOLEAN
    /\ rejectionCompletionFlag = FALSE
    /\ pc = "idle"
    /\ args = NoArgs
    /\ i = 0
    /\ raised = "none"
    /\ log = <<>>
    /\ ncalls = 0

Run(strategy, criterion) ==
    CASE strategy = "fourier"  -> fourierTransformRejection(Self, criterion)
      [] strategy = "rms"      -> rmsRejection(Self, criterion)
      [] strategy = "binShift" -> binShiftRejection(Self)

\* What one strategy invocation did, as the log keeps it.
Entry(strategy, r) ==
    [strategy |-> strategy, arBefore |-> getData(Archive), used |-> r.used,
     cmds |-> r.ar.cmds, selected |-> r.selected,
     flagBefore |-> rejectionCompletionFlag, flagAfter |-> r.flag,
     raised |-> r.raised, dataAfter |-> r.data, arAfter |-> getData(r.ar),
     fitted |-> r.fitted, nan |-> r.nan]

\* The object and archive after an invocation with result r.
Effect(strategy, r) ==
    /\ weights' = r.ar.weights
    /\ data' = r.data
    /\ raised' = r.raised
    /\ log' = Append(log, Entry(strategy, r))
    /\ UNCHANGED <<SNError, kindAt, verbose, args, ncalls>>

\* A range that runs one pass too many.
InRangeOffByOne(n, iterations) == n <= iterations

\* for i in np.arange( iterations ): whether pass n (from 0) is run.
InRange(n, iterations) == n < iterations

\* The blocks with RMS moved before Fourier.
OrderRmsFirst == <<"rms", "fourier", "binShift">>

\* The three strategy blocks of reject, in the order they stand in it.
Order == <<"fourier", "rms", "binShift">>

\* Where control goes after the block of strategy p.
Following(p) ==
    LET n == CHOOSE k \in 1..Len(Order) : Order[k] = p
    IN  IF n = Len(Order) THEN "reload" ELSE Order[n + 1]

\* reject, lines 132-136: the call and the initial flag.
RejectCall(criterion, iterations, fourier, rms_, binShift) ==
    /\ pc = "idle"
    /\ ncalls < MaxCalls
    /\ rejectionCompletionFlag' = FALSE
    /\ args' = [criterion |-> criterion, iterations |-> iterations,
                fourier |-> fourier, rms |-> rms_, binShift |-> binShift]
    /\ pc' = Order[1]
    /\ i' = 0
    /\ raised' = "none"
    /\ log' = <<>>
    /\ ncalls' = ncalls + 1
    /\ UNCHANGED <<SNError, kindAt, weights, data, verbose>>

\* reject, lines 138-158: one pass of the Fourier loop, with the break and
\* the reset of the flag after the loop.
FourierIteration ==
    /\ pc = "fourier"
    /\ args.fourier
    /\ InRange(i, args.iterations)
    /\ LET r == Run("fourier", args.criterion)
       IN  /\ Effect("fourier", r)
           /\ IF r.raised # "none"
              THEN /\ pc' = "done"
                   /\ rejectionCompletionFlag' = r.flag
                   /\ i' = i
              ELSE IF r.flag \/ ~InRange(i + 1, args.iterations)
              THEN /\ pc' = Following("fourier")
                   /\ rejectionCompletionFlag' = FALSE
                   /\ i' = 0
              ELSE /\ pc' = "fourier"
                   /\ rejectionCompletionFlag' = r.flag
                   /\ i' = i + 1

\* reject, lines 138-158 with no pass to run: fourier is off, or the range
\* is empty.
FourierSkip ==
    /\ pc = "fourier"
    /\ ~(args.fourier /\ InRange(i, args.iterations))
    /\ pc' = Following("fourier")
    /\ rejectionCompletionFlag' =
           IF args.fourier THEN FALSE ELSE rejectionCompletionFlag
    /\ i' = 0
    /\ UNCHANGED <<SNError, kindAt, weights, data, verbose, args, raised, log, ncalls>>

\* reject, lines 161-181: one pass of the RMS loop.
RmsIteration ==
    /\ pc = "rms"
    /\ args.rms
    /\ InRange(i, args.iterations)
    /\ LET r == Run("rms", args.criterion)
       IN  /\ Effect("rms", r)
           /\ IF r.raised # "none"
              THEN /\ pc' = "done"
                   /\ rejectionCompletionFlag' = r.flag
                   /\ i' = i
              ELSE IF r.flag \/ ~InRange(i + 1, args.iterations)
              THEN /\ pc' = Following("rms")
                   /\ rejectionCompletionFlag' = FALSE
                   /\ i' = 0
              ELSE /\ pc' = "rms"
                   /\ rejectionCompletionFlag' = r.flag
                   /\ i' = i + 1

RmsSkip ==
    /\ pc = "rms"
    /\ ~(args.rms /\ InRange(i, args.iterations))
    /\ pc' = Following("rms")
    /\ rejectionCompletionFlag' =
           IF args.rms THEN FALSE ELSE rejectionCompletionFlag
    /\ i' = 0
    /\ UNCHANGED <<SNError, kindAt, weights, data, verbose, args, raised, log, ncalls>>

\* The guard of the bin-shift loop: the loop stands inside "if self.verbose".
BinShiftLoopRuns == args.binShift /\ verbose

\* reject, lines 183-196: one pass of the bin-shift loop.  The flag is not
\* reset after this loop.
BinShiftIteration ==
    /\ pc = "binShift"
    /\ BinShiftLoopRuns
    /\ InRange(i, args.iterations)
    /\ LET r == Run("binShift", args.criterion)
       IN  /\ Effect("binShift", r)
           /\ rejectionCompletionFlag' = r.flag
           /\ IF r.flag \/ ~InRange(i + 1, args.iterations)
              THEN pc' = Following("binShift") /\ i' = 0
              ELSE pc' = "binShift" /\ i' = i + 1

BinShiftSkip ==
    /\ pc = "binShift"
    /\ ~(BinShiftLoopRuns /\ InRange(i, args.iterations))
    /\ pc' = Following("binShift")
    /\ i' = 0
    /\ UNCHANGED <<SNError, kindAt, weights, data, verbose, rejectionCompletionFlag,
                   args, raised, log, ncalls>>

\* reject, line 204: the data cube is fetched again, and reject returns.
RejectReload ==
    /\ pc = "reload"
    /\ data' = getData(Archive)
    /\ pc' = "done"
    /\ UNCHANGED <<SNError, kindAt, weights, verbose, rejectionCompletionFlag,
                   args, i, raised, log, ncalls>>

\* A strategy called on the object directly, outside reject.  Only
\* rmsRejection reads its criterion; binShiftRejection takes none.
DirectCall(strategy, criterion) ==
    /\ pc = "idle"
    /\ ncalls < MaxCalls
    /\ LET r == Run(strategy, criterion)
       IN  /\ weights' = r.ar.weights
           /\ data' = r.data
           /\ raised' = r.raised
           /\ log' = <<Entry(strategy, r)>>
           /\ rejectionCompletionFlag' = r.flag
    /\ pc' = "direct"
    /\ ncalls' = ncalls + 1
    /\ UNCHANGED <<SNError, kindAt, verbose, args, i>>

\* The caller goes on after a call that returned or raised.
Return ==
    /\ pc \in {"done", "direct"}
    /\ pc' = "idle"
    /\ args' = NoArgs
    /\ i' = 0
    /\ log' = <<>>
    /\ UNCHANGED <<SNError, kindAt, weights, data, verbose, rejectionCompletionFlag,
                   raised, ncalls>>

RejectStep ==
    \/ FourierIteration
    \/ FourierSkip
    \/ RmsIteration
    \/ RmsSkip
    \/ BinShiftIteration
    \/ BinShiftSkip
    \/ RejectReload

Next ==
    \/ \E criterion \in Criteria, iterations \in 0..MaxIterations,
          fourier \in BOOLEAN, rms_ \in BOOLEAN, binShift \in BOOLEAN :
          RejectCall(criterion, iterations, fourier, rms_, binShift)
    \/ RejectStep
    \/ \E strategy \in Strategies :
          \E criterion \in IF strategy = "binShift" THEN {"chauvenet"} ELSE Criteria :
              DirectCall(strategy, criterion)
    \/ Return

Spec == Init /\ [][Next]_vars

TypeOK ==
    /\ kindAt \in [Cells -> Kinds]
    /\ weights \in [Cells -> {0, 1}]
    /\ data \in [Cells -> Kinds]
    /\ verbose \in BOOLEAN
    /\ rejectionCompletionFlag \in BOOLEAN
    /\ pc \in {"idle", "fourier", "rms", "binShift", "reload", "done", "direct"}
    /\ i \in 0..MaxIterations
    /\ args.iterations \in 0..MaxIterations
    /\ raised \in {"none", "ValueError", "RuntimeError"}
    /\ ncalls \in 0..MaxCalls
    /\ SNError \in BOOLEAN

(***************************************************************************)
(* DataCull.__init__, step by step.  The observation on disk is kindAt;    *)
(* log keeps the loads done so far.                                        *)
(***************************************************************************)
\* The files of the directory, and the file names a caller may pass.
Files == {"obs.fits"}

Filenames == {"obs.fits", "missing.fits"}

\* os.path.isfile( self.directory + filename )
isfile(filename) == filename \in Files

\* Archive.getSN: the signal-to-noise ratio of the observation, here the
\* number of clean profiles it holds.
getSN(ar) == Cardinality({c \in Cells : getData(ar)[c] = "inlier"})

\* The floors a caller may pass: from below every S/N to above every S/N.
SNLims == 0..(Nsubint * Nchan + 1)

\* A floor test that also rejects an S/N equal to the floor.
TooLowOrEqual(sn, SNLim) == sn <= SNLim

\* self.ar.getSN() < SNLim
TooLow(sn, SNLim) == sn < SNLim

\* self.data before __init__ has fetched the data cube.
Unloaded == [c \in Cells |-> "zero"]

CtorInit ==
    /\ kindAt \in Grids
    /\ weights = [c \in Cells |-> 1]
    /\ data = Unloaded
    /\ verbose = FALSE
    /\ rejectionCompletionFlag = FALSE
    /\ SNError = FALSE
    /\ pc = "new"
    /\ args = NoArgs
    /\ i = 0
    /\ raised = "none"
    /\ log = <<>>
    /\ ncalls = 0

\* __init__, lines 39-66: SNError is cleared, then the file name is checked.
InitCall(filename, SNLim, verbose_) ==
    /\ pc = "new"
    /\ args' = [filename |-> filename, SNLim |-> SNLim, verbose |-> verbose_]
    /\ SNError' = FALSE
    /\ IF isfile(filename)
       THEN pc' = "template" /\ raised' = "none"
       ELSE pc' = "failed" /\ raised' = "FileNotFoundError"
    /\ UNCHANGED <<kindAt, weights, data, verbose, rejectionCompletionFlag,
                   i, log, ncalls>>

\* Lines 69-75: the template is loaded, then verbose and SNLim are kept.
LoadTemplate ==
    /\ pc = "template"
    /\ log' = Append(log, "template")
    /\ verbose' = args.verbose
    /\ pc' = "archive"
    /\ UNCHANGED <<kindAt, weights, data, rejectionCompletionFlag, SNError,
                   args, i, raised, ncalls>>

\* Line 78: the archive is loaded from the file.
LoadArchive ==
    /\ pc = "archive"
    /\ log' = Append(log, "archive")
    /\ pc' = "SN"
    /\ UNCHANGED <<kindAt, weights, data, verbose, rejectionCompletionFlag,
                   SNError, args, i, raised, ncalls>>

\* Lines 85-89: the S/N floor.
CheckSN ==
    /\ pc = "SN"
    /\ SNError' = IF TooLow(getSN(Archive), args.SNLim) THEN TRUE ELSE SNError
    /\ pc' = "data"
    /\ UNCHANGED <<kindAt, weights, data, verbose, rejectionCompletionFlag,
                   args, i, raised, log, ncalls>>

\* Line 92: the data cube is fetched.
LoadData ==
    /\ pc = "data"
    /\ data' = getData(Archive)
    /\ pc' = "constructed"
    /\ UNCHANGED <<kindAt, weights, verbose, rejectionCompletionFlag, SNError,
                   args, i, raised, log, ncalls>>

CtorNext ==
    \/ \E filename \in Filenames, SNLim \in SNLims, verbose_ \in BOOLEAN :
          InitCall(filename, SNLim, verbose_)
    \/ LoadTemplate
    \/ LoadArchive
    \/ CheckSN
    \/ LoadData

CtorSpec == CtorInit /\ [][CtorNext]_vars

(***************************************************************************)
(* otherUtilities.zeroWeights called on its own, with any mask and archive. *)
(***************************************************************************)
\* The weight matrices a call starts from: every weight set, or one cleared.
StartWeights ==
    {[c \in Cells |-> IF c = z THEN 0 ELSE 1] : z \in Cells}
    \cup {[c \in Cells |-> 1]}

\* The masks a caller passes: no cell, one cell or two cells selected.
Masks ==
    {[c \in Cells |-> c = a \/ c = b] : a \in Cells, b \in Cells}
    \cup {[c \in Cells |-> FALSE]}

ZwInit ==
    /\ kindAt = [c \in Cells |-> "inlier"]
    /\ weights \in StartWeights
    /\ data = [c \in Cells |-> IF weights[c] = 0 THEN "zero" ELSE kindAt[c]]
    /\ verbose = FALSE
    /\ rejectionCompletionFlag = FALSE
    /\ SNError = FALSE
    /\ pc = "idle"
    /\ args = NoArgs
    /\ i = 0
    /\ raised = "none"
    /\ log = <<>>
    /\ ncalls = 0

\* zeroWeights( criterion, archive ); archive is the session's archive or
\* None.  A call without an archive has none to command.
ZeroWeightsCall(criterion, archive) ==
    /\ pc = "idle"
    /\ LET z == zeroWeights(criterion, archive)
       IN  /\ weights' = IF archive = None THEN weights ELSE z.ar.weights
           /\ raised' = z.raised
           /\ log' = <<[before |-> weights,
                        cmds |-> IF archive = None THEN <<>> ELSE z.ar.cmds]>>
    /\ args' = [criterion |-> criterion, archive |-> archive]
    /\ pc' = "called"
    /\ UNCHANGED <<kindAt, data, verbose, rejectionCompletionFlag, SNError,
                   i, ncalls>>

ZwNext ==
    \E criterion \in Masks \cup {None}, archive \in {Archive, None} :
        ZeroWeightsCall(criterion, archive)

ZwSpec == ZwInit /\ [][ZwNext]_vars

(***************************************************************************)
(* DataCull.reject as one function of an object and the arguments of the   *)
(* call, to compare the calls made on two objects.  A run is               *)
(* [self, trace, raised]: the object, the strategies invoked so far, and   *)
(* the exception that ended the call ("none": still running or returned).  *)
(***************************************************************************)
RunOn(strategy, self, criterion) ==
    CASE strategy = "fourier"  -> fourierTransformRejection(self, criterion)
      [] strategy = "rms"      -> rmsRejection(self, criterion)
      [] strategy = "binShift" -> binShiftRejection(self)

\* for i in np.arange( iterations ): the strategy, then the break on the
\* flag; n is the pass to run next.
RECURSIVE StrategyLoop(_, _, _, _)
StrategyLoop(strategy, run, call, n) ==
    IF ~InRange(n, call.iterations) THEN run
    ELSE LET r == RunOn(strategy, run.self, call.criterion)
             after == [self |-> [run.self EXCEPT
                                    !.ar = [r.ar EXCEPT !.cmds = <<>>],
                                    !.data = r.data,
                                    !.flag = r.flag],
                       trace |-> Append(run.trace, strategy),
                       raised |-> r.raised]
         IN  IF r.raised # "none" \/ r.flag THEN after
             ELSE StrategyLoop(strategy, after, call, n + 1)

\* self.rejectionCompletionFlag = False after a loop that was not left by an
\* exception.
ResetFlag(run) ==
    IF run.raised # "none" THEN run ELSE [run EXCEPT !.self.flag = FALSE]

reject(self, call) ==
    LET start == [self |-> [self EXCEPT !.flag = FALSE],
                  trace |-> <<>>, raised |-> "none"]
        afterFourier ==
            IF call.fourier
            THEN ResetFlag(StrategyLoop("fourier", start, call, 0))
            ELSE start
        afterRms ==
            IF afterFourier.raised = "none" /\ call.rms
            THEN ResetFlag(StrategyLoop("rms", afterFourier, call, 0))
            ELSE afterFourier
        afterBinShift ==
            IF afterRms.raised = "none" /\ call.binShift /\ afterRms.self.verbose
            THEN StrategyLoop("binShift", afterRms, call, 0)
            ELSE afterRms
    IN  IF afterBinShift.raised # "none" THEN afterBinShift
        ELSE [afterBinShift EXCEPT !.self.data = getData(afterBinShift.self.ar)]

(***************************************************************************)
(* Properties.                                                             *)
(***************************************************************************)
\* The invocations of strategy s logged for the current call.
Invocations(s) == {n \in 1..Len(log) : log[n].strategy = s}

Count(s) == Cardinality(Invocations(s))

\* reject has been called and has not been left by its caller.
InReject == pc \in {"fourier", "rms", "binShift", "reload", "done"}

\* reject came back to its caller by returning.
RejectReturned == pc = "done" /\ raised = "none"

Untouched == [c \in Cells |-> 1]

\* A grid with no outlier of any kind: every profile an inlier.
NoOutlier == \A c \in Cells : kindAt[c] = "inlier"

\* C1: in reject, once an invocation of a strategy found no cell to reject,
\* that strategy is not invoked again in the same call.
C1_NoInvocationAfterClean ==
    InReject =>
        \A n \in 1..Len(log), m \in 1..Len(log) :
            (n < m /\ log[n].strategy = log[m].strategy)
                => ~(log[n].selected = {} /\ log[n].cmds = <<>>)

\* C2: when reject with iterations >= 1 returns, every enabled strategy has
\* been invoked at least once, whatever verbose is.
C2_EveryEnabledStrategyInvoked ==
    (RejectReturned /\ args.iterations >= 1) =>
        \A s \in Strategies : args[s] => Count(s) >= 1

\* C3: reject invokes each strategy at most `iterations` times and comes to
\* its end, also when every invocation rejects a cell and the completion
\* flag never becomes true.
\* Termination is stated by a variant: every step taken while reject runs
\* lowers Remaining, which is bounded below.
Running == pc \in {"fourier", "rms", "binShift", "reload"}

BlocksLeft ==
    CASE pc = "fourier"  -> 4
      [] pc = "rms"      -> 3
      [] pc = "binShift" -> 2
      [] pc = "reload"   -> 1
      [] OTHER           -> 0

Remaining == BlocksLeft * (args.iterations + 1) - i

C3_TerminatesWithinIterations ==
    /\ [](InReject => \A s \in Strategies : Count(s) <= args.iterations)
    /\ [](InReject => Remaining >= -args.iterations)
    /\ [][Running => Remaining' < Remaining]_vars

\* Each of two RMS passes rejected a cell, the flag never became true, and
\* reject returned.
C3_Witness ==
    /\ RejectReturned
    /\ args.iterations >= 2
    /\ Count("rms") = args.iterations
    /\ \A n \in Invocations("rms") : log[n].selected # {} /\ ~log[n].flagAfter

\* C4: within one reject call every Fourier invocation comes before every
\* RMS invocation, and every RMS invocation before every bin-shift one.
Rank(s) == CASE s = "fourier" -> 1 [] s = "rms" -> 2 [] s = "binShift" -> 3

C4_StrategyOrder ==
    InReject =>
        \A n \in 1..Len(log), m \in 1..Len(log) :
            n < m => Rank(log[n].strategy) <= Rank(log[m].strategy)

\* A reject call that invoked all three strategies.
C4_Witness ==
    /\ RejectReturned
    /\ \A s \in Strategies : Count(s) >= 1

\* C5: every weight command carries the value 0, and a cell whose weight is
\* 0 keeps weight 0 at every step.
C5_OnlyZeroCommands ==
    /\ [](\A n \in 1..Len(log) : \A k \in 1..Len(log[n].cmds) :
              log[n].cmds[k][1] = 0)
    /\ [][\A c \in Cells : weights[c] = 0 => weights'[c] = 0]_vars

\* Two successive invocations each zero-weighted a cell, and the first one's
\* cell is still zero-weighted.
C5_Witness ==
    \E n \in 1..Len(log) :
        /\ n > 1
        /\ log[n].cmds # <<>>
        /\ log[n - 1].cmds # <<>>
        /\ \A k \in 1..Len(log[n - 1].cmds) :
               weights[<<log[n - 1].cmds[k][2], log[n - 1].cmds[k][3]>>] = 0

\* C6: an invocation that leaves the completion flag true zero-weighted no
\* cell.
C6_FlagTrueMeansNoCommand ==
    \A n \in 1..Len(log) :
        (log[n].raised = "none" /\ log[n].flagAfter) => log[n].cmds = <<>>

\* C7: one strategy run once on a grid with no outlier reports the
\* completion flag true and leaves every weight as it was.
C7_CleanGridReportsClean ==
    /\ (/\ RejectReturned
        /\ NoOutlier
        /\ args.iterations = 1
        /\ Cardinality({s \in Strategies : args[s]}) = 1)
         => /\ Len(log) = 1
            /\ log[1].flagAfter
            /\ weights = Untouched
    /\ (pc = "direct" /\ raised = "none" /\ NoOutlier)
         => log[1].flagAfter /\ weights = Untouched

\* C8: every strategy invocation computes its statistics from the grid the
\* archive holds when the invocation starts.
C8_StatisticsFromFreshGrid ==
    \A n \in 1..Len(log) : log[n].used = log[n].arBefore

\* An invocation that follows one of another strategy which zero-weighted a
\* cell.
C8_Witness ==
    \E n \in 1..Len(log) :
        /\ n > 1
        /\ log[n].strategy # log[n - 1].strategy
        /\ log[n - 1].cmds # <<>>
        /\ log[n].arBefore # kindAt

\* C9: when a strategy invocation returns, self.data is the archive's
\* current grid.
C9_CacheFreshAfterInvocation ==
    \A n \in 1..Len(log) :
        log[n].raised = "none" => log[n].dataAfter = log[n].arAfter

\* C10: reject with a criterion that is neither 'chauvenet' nor 'DMAD' ends
\* in the configuration error with no weight command issued.
C10_BadCriterionFailsFast ==
    (pc = "done" /\ args.criterion \notin {"chauvenet", "DMAD"}) =>
        /\ raised = "ValueError"
        /\ \A n \in 1..Len(log) : log[n].cmds = <<>>

\* The cells of grid whose fit (Fourier) or shift estimation (bin-shift)
\* fails when it is attempted.
FitFails(strategy, grid) ==
    {c \in Cells :
        IF strategy = "fourier"
        THEN all(profFFT(grid[c])) /\ ~curve_fit(grid[c]).ok
        ELSE ~AllZero(grid[c]) /\ ~get_toa3(grid[c]).ok}

\* The cells an invocation sent a weight command for.
Commanded(e) == {<<e.cmds[k][2], e.cmds[k][3]>> : k \in 1..Len(e.cmds)}

\* C11: in the Fourier and the bin-shift strategy a fit or estimation
\* failure on one cell stays in the loop: the invocation returns, the cell
\* is zero-weighted, and every other cell that is not skipped is fitted.
C11_FitFailureContained ==
    \A n \in 1..Len(log) :
        log[n].strategy \in {"fourier", "binShift"} =>
            /\ log[n].raised = "none"
            /\ FitFails(log[n].strategy, log[n].used) \subseteq Commanded(log[n])
            /\ \A c \in Cells :
                   (IF log[n].strategy = "fourier"
                    THEN all(profFFT(log[n].used[c]))
                    ELSE ~AllZero(log[n].used[c])) => c \in log[n].fitted

\* The stored grid holds all-zero profiles and inliers only, at least one of
\* each.
DegenerateAndInliers ==
    /\ \A c \in Cells : kindAt[c] \in {"zero", "inlier"}
    /\ \E c \in Cells : kindAt[c] = "zero"
    /\ \E c \in Cells : kindAt[c] = "inlier"

\* C12: after a strategy has run on a grid of all-zero cells and inliers,
\* every all-zero cell has been sent a zero-weight command and is NaN in the
\* statistic matrix (where the strategy has one), and every inlier keeps its
\* weight.
C12_DegenerateCellZeroWeighted ==
    (DegenerateAndInliers /\ Len(log) >= 1 /\ log[1].raised = "none") =>
        \A c \in Cells :
            IF kindAt[c] = "zero"
            THEN /\ c \in Commanded(log[1])
                 /\ log[1].strategy # "fourier" => c \in log[1].nan
            ELSE log[1].arAfter[c] = "inlier"

\* C13: a cell that reads back as all zeros when an invocation starts is not
\* fitted or estimated by it, not selected by its rejection mask, and sent
\* no weight command by it.
C13_ZeroWeightedNotRevisited ==
    \A n \in 1..Len(log) :
        \A c \in Cells :
            log[n].arBefore[c] = "zero" =>
                /\ c \notin log[n].fitted
                /\ c \notin log[n].selected
                /\ c \notin Commanded(log[n])

\* An invocation zero-weighted a cell, and a later invocation of a strategy
\* with a statistic matrix recorded NaN for it while it rejected another.
C13_Witness ==
    \E m \in 1..Len(log), n \in 1..Len(log) :
        /\ m < n
        /\ \E c \in Commanded(log[m]) :
               /\ kindAt[c] # "zero"
               /\ log[n].arBefore[c] = "zero"
               /\ c \in log[n].nan
        /\ log[n].cmds # <<>>

NonZeroSpectrum(k) == \E b \in 1..Len(profFFT(k)) : profFFT(k)[b] # 0

\* C15: a Fourier invocation that returns has fitted exactly the cells whose
\* spectrum is not identically zero, and has zero-weighted exactly those of
\* them whose fitted second parameter is negative.
C15_FourierSkipsOnlyZeroSpectrum ==
    \A n \in 1..Len(log) :
        (log[n].strategy = "fourier" /\ log[n].raised = "none") =>
            \A c \in Cells :
                /\ c \in log[n].fitted <=> NonZeroSpectrum(log[n].used[c])
                /\ c \in Commanded(log[n]) <=>
                       /\ NonZeroSpectrum(log[n].used[c])
                       /\ curve_fit(log[n].used[c]).width < 0

\* C16: one bin-shift invocation sends weight commands for exactly the cells
\* whose shift estimation failed (NaN in both matrices) and the cells either
\* Chauvenet mask selects; those cells read back as zero afterwards and every
\* other cell reads back as before.
C16_BinShiftZeroWeightsExactly ==
    \A n \in 1..Len(log) :
        log[n].strategy = "binShift" =>
            /\ Commanded(log[n]) =
                   FitFails("binShift", log[n].used) \cup log[n].selected
            /\ FitFails("binShift", log[n].used) \subseteq log[n].nan
            /\ \A c \in Cells :
                   log[n].arAfter[c] =
                       IF c \in Commanded(log[n]) THEN "zero"
                       ELSE log[n].arBefore[c]

\* A bin-shift invocation with a failed cell, a cell selected by the mask of
\* the shifts or of the uncertainties, and a cell left alone.
C16_Witness ==
    \E n \in 1..Len(log) :
        /\ log[n].strategy = "binShift"
        /\ FitFails("binShift", log[n].used) # {}
        /\ log[n].selected # {}
        /\ \E c \in Cells : log[n].arAfter[c] = "inlier"

\* C17: in reject the completion flag is false when the loop of each
\* strategy starts, and false when reject returns.
C17_FlagFalseAtLoopStartAndReturn ==
    /\ (pc \in Strategies /\ i = 0) => ~rejectionCompletionFlag
    /\ RejectReturned => ~rejectionCompletionFlag

\* C18: zeroWeights( criterion, archive ) sends weight 0 to exactly the cells
\* the mask selects and leaves every other weight as it was; with criterion
\* or archive None it raises ValueError and no weight is changed.
C18_ZeroWeightsExactlyMask ==
    pc = "called" =>
        IF args.criterion = None \/ args.archive = None
        THEN /\ raised = "ValueError"
             /\ log[1].cmds = <<>>
             /\ weights = log[1].before
        ELSE /\ raised = "none"
             /\ Commanded(log[1]) = Selected(args.criterion)
             /\ \A k \in 1..Len(log[1].cmds) : log[1].cmds[k][1] = 0
             /\ \A c \in Cells :
                    weights[c] = IF args.criterion[c] THEN 0
                                 ELSE log[1].before[c]

\* A call whose mask selected a cell of weight 1 and left out a cell of
\* weight 0.
C18_Witness ==
    /\ pc = "called"
    /\ raised = "none"
    /\ \E c \in Cells, d \in Cells :
           /\ args.criterion[c] /\ log[1].before[c] = 1 /\ weights[c] = 0
           /\ ~args.criterion[d] /\ log[1].before[d] = 0 /\ weights[d] = 0

\* C19: rmsRejection with a criterion that is neither 'chauvenet' nor 'DMAD'
\* raises ValueError, and an rmsRejection that raised sent no weight
\* command, left every cell as it read before and left the completion flag
\* as it was.
C19_RmsBadCriterionNoEffect ==
    \A n \in 1..Len(log) :
        log[n].strategy = "rms" =>
            /\ InReject =>
                   (log[n].raised = "ValueError"
                        <=> args.criterion \notin {"chauvenet", "DMAD"})
            /\ log[n].raised = "ValueError" =>
                   /\ log[n].cmds = <<>>
                   /\ log[n].selected = {}
                   /\ log[n].arAfter = log[n].arBefore
                   /\ log[n].flagAfter = log[n].flagBefore

\* rmsRejection raised on a grid holding a profile that a valid criterion
\* rejects.
C19_Witness ==
    \E n \in 1..Len(log) :
        /\ log[n].strategy = "rms"
        /\ log[n].raised = "ValueError"
        /\ \E c \in Cells : log[n].used[c] = "loud"
        /\ weights = Untouched

\* The stepwise reject and the function agree: when the first call made on
\* the object has come to its end, the object is what the function gives
\* for the object as constructed.
RejectAgrees ==
    (pc = "done" /\ ncalls = 1) =>
        LET constructed == [ar |-> [kindAt |-> kindAt, weights |-> Untouched,
                                    cmds |-> <<>>],
                            data |-> kindAt, flag |-> FALSE,
                            verbose |-> verbose]
            run == reject(constructed, args)
        IN  /\ run.raised = raised
            /\ run.trace = [n \in 1..Len(log) |-> log[n].strategy]
            /\ run.self.ar.weights = weights
            /\ run.self.data = data
            /\ run.self.flag = rejectionCompletionFlag

\* reject has just been called: no strategy block has been entered.
JustCalled == pc = Order[1] /\ i = 0 /\ log = <<>> /\ raised = "none"

\* C20: two objects on the same archive that differ only in verbose, given
\* the same reject call, invoke the same strategies in the same order and
\* end with the same cells zero-weighted.
C20_VerboseObservational ==
    JustCalled =>
        LET verboseRun == reject([Self EXCEPT !.verbose = TRUE], args)
            quietRun   == reject([Self EXCEPT !.verbose = FALSE], args)
        IN  /\ verboseRun.trace = quietRun.trace
            /\ verboseRun.raised = quietRun.raised
            /\ verboseRun.self.ar.weights = quietRun.self.ar.weights

====
